---- MODULE Spec2Model ----
(***************************************************************************)
(* Model of tool.py: the directory walker (listdir), the two sync drivers  *)
(* (sync_assets, sync_cards) and the Redis commands they issue (SCAN, SET, *)
(* PUBLISH, EXPIRE).  Paths, keys and values are strings, handled with the *)
(* same slicing and splitting the script does.                             *)
(***************************************************************************)
EXTENDS Integers, Sequences, FiniteSets, TLC

VARIABLES
    tree,     \* the local directory: a sequence of entries in scandir order
    store,    \* the Redis keyspace: key -> [val, ttl]; ttl = 0 means no expiry
    pc,       \* where the process is: idle, upload, publish, expire, done, aborted, usage, crashed
    mode,     \* sys.argv[1] of the current run
    local,    \* the list `local`: <<logical key, file path>> pairs
    remote,   \* the list `remote`: logical keys still to expire, as a bag
    i,        \* index of the current item of `for item in local`
    ops,      \* the Redis write commands this run has issued, in order
    scan,     \* what scan_iter returned at the start of this run, as a bag
    store0,   \* the keyspace at the start of this run
    first,    \* the run completed just before this one, when this one repeats it
    crash0,   \* the keyspace before the interrupted run this one repeats
    since,    \* per key: seconds since the first completed run that found it unbacked
    sinceExp  \* per key: seconds since the last EXPIRE a run issued on it

vars == <<tree, store, pc, mode, local, remote, i, ops, scan, store0, first, crash0, since, sinceExp>>

----------------------------------------------------------------------------
(* Bounds of the model *)

\* most files the directory holds at once
MaxFiles == 2
\* most entries scan_iter returns beyond one per key (SCAN may repeat a key)
MaxDup == 1

----------------------------------------------------------------------------
(* Strings, the way Python slices and splits them *)

Max(a, b) == IF a >= b THEN a ELSE b
Min(a, b) == IF a <= b THEN a ELSE b

Range(s) == {s[n] : n \in DOMAIN s}

CharAt(s, n) == SubSeq(s, n, n)

\* s.endswith(suf)
EndsWith(s, suf) ==
    /\ Len(s) >= Len(suf)
    /\ SubSeq(s, Len(s) - Len(suf) + 1, Len(s)) = suf

\* s.startswith(pre)
StartsWith(s, pre) ==
    /\ Len(s) >= Len(pre)
    /\ SubSeq(s, 1, Len(pre)) = pre

\* s[:-n]
DropLast(s, n) == SubSeq(s, 1, Max(Len(s) - n, 0))

\* s[n:]
DropFirst(s, n) == SubSeq(s, Min(n, Len(s)) + 1, Len(s))

\* the position of the last c in s, 0 when there is none
LastIndexOf(s, c) ==
    LET hits == {n \in 1..Len(s) : CharAt(s, n) = c}
    IN  IF hits = {} THEN 0 ELSE CHOOSE n \in hits : \A m \in hits : m <= n

\* the position of the first c in s, 0 when there is none
FirstIndexOf(s, c) ==
    LET hits == {n \in 1..Len(s) : CharAt(s, n) = c}
    IN  IF hits = {} THEN 0 ELSE CHOOSE n \in hits : \A m \in hits : m >= n

\* s.split(c)[-1], which is also s.rsplit(c)[-1]
SplitLast(s, c) == SubSeq(s, LastIndexOf(s, c) + 1, Len(s))

\* s.split(c)[0]
SplitFirst(s, c) ==
    IF FirstIndexOf(s, c) = 0 THEN s ELSE SubSeq(s, 1, FirstIndexOf(s, c) - 1)

----------------------------------------------------------------------------
(* The directory and the walker *)

\* sys.argv[2]
Directory == "www"

File(name, data) == [name |-> name, isdir |-> FALSE, kids |-> <<>>, data |-> data]
Dir(name, kids) == [name |-> name, isdir |-> TRUE, kids |-> kids, data |-> ""]

\* listdir(root, acc): the relative paths of the files below `entries`, depth first
RECURSIVE listdir(_, _)
listdir(entries, acc) ==
    IF entries = <<>> THEN <<>>
    ELSE LET entry == Head(entries)
             path == IF acc # "" THEN acc \o "/" \o entry.name ELSE entry.name
         IN  (IF entry.isdir THEN listdir(entry.kids, path) ELSE <<path>>)
             \o listdir(Tail(entries), acc)

\* the same walk, keeping what each file holds: <<relative path, bytes>>
RECURSIVE Files(_, _)
Files(entries, acc) ==
    IF entries = <<>> THEN <<>>
    ELSE LET entry == Head(entries)
             path == IF acc # "" THEN acc \o "/" \o entry.name ELSE entry.name
         IN  (IF entry.isdir THEN Files(entry.kids, path) ELSE <<(<<path, entry.data>>)>>)
             \o Files(Tail(entries), acc)

\* open(f'{directory}/{path}', 'rb').read()
Open(full) ==
    LET fs == Files(tree, "")
        n == CHOOSE n \in DOMAIN fs : Directory \o "/" \o fs[n][1] = full
    IN  fs[n][2]

----------------------------------------------------------------------------
(* Keys and values *)

\* the asset logical key of a relative path
AssetKey(path) ==
    IF EndsWith(path, "index.html") THEN DropLast(path, 11) ELSE path

\* the card logical key of a relative path
CardKey(path) == SplitFirst(SplitLast(path, "/"), ".")

\* mimetypes.get(ext, b'text/plain')
Mimetype(ext) ==
    CASE ext = "html"  -> "text/html"
      [] ext = "css"   -> "text/css"
      [] ext = "js"    -> "application/javascript"
      [] ext = "svg"   -> "image/svg+xml"
      [] ext = "ico"   -> "image/vnd.microsoft.icon"
      [] ext = "woff2" -> "font/woff2"
      [] ext = "png"   -> "image/png"
      [] OTHER         -> "text/plain"

\* the buffer sync_assets builds for a file
AssetValue(full, data) == Mimetype(SplitLast(full, ".")) \o ";" \o data

\* s without its leading and trailing JSON whitespace
RECURSIVE Strip(_)
Strip(s) ==
    IF s = "" THEN s
    ELSE IF CharAt(s, 1) = " " THEN Strip(DropFirst(s, 1))
    ELSE IF CharAt(s, Len(s)) = " " THEN Strip(DropLast(s, 1))
    ELSE s

\* json.load on the texts the model's files hold: an empty object, an empty
\* array (whitespace allowed around and inside them), anything else is a
\* parse error
JsonLoad(data) ==
    LET t == Strip(data)
        inner == Strip(SubSeq(t, 2, Len(t) - 1))
    IN  IF Len(t) >= 2 /\ CharAt(t, 1) = "{" /\ CharAt(t, Len(t)) = "}" /\ inner = ""
        THEN "dict"
        ELSE IF Len(t) >= 2 /\ CharAt(t, 1) = "[" /\ CharAt(t, Len(t)) = "]" /\ inner = ""
        THEN "list"
        ELSE "JSONDecodeError"

\* json.dumps of what JsonLoad returns
JsonDumps(value) == IF value = "dict" THEN "{}" ELSE "[]"

\* the buffer sync_cards builds for a file that parses
CardValue(data) == JsonDumps(JsonLoad(data))

\* the namespace prefix of a mode
Prefix(m) == IF m = "sync_assets" THEN "asset:" ELSE "card:"

\* the logical key a mode derives from a relative path
LogicalKey(m, path) == IF m = "sync_assets" THEN AssetKey(path) ELSE CardKey(path)

\* the list `local` had the walk stopped one path short
LocalItemsButLast(m, paths) ==
    [n \in 1..(Len(paths) - 1) |->
        <<LogicalKey(m, paths[n]), Directory \o "/" \o paths[n]>>]

\* the list `local` of a mode
RECURSIVE LocalItems(_, _)
LocalItems(m, paths) ==
    IF paths = <<>> THEN <<>>
    ELSE <<(<<LogicalKey(m, Head(paths)), Directory \o "/" \o Head(paths)>>)>>
         \o LocalItems(m, Tail(paths))

\* the value a mode writes for a file
Value(m, full, data) == IF m = "sync_assets" THEN AssetValue(full, data) ELSE CardValue(data)

\* reading the file had both modes parse it as JSON
RaisesInBothModes(m, data) == JsonLoad(data) = "JSONDecodeError"

\* whether reading the file raises in this mode
Raises(m, data) == m = "sync_cards" /\ JsonLoad(data) = "JSONDecodeError"

----------------------------------------------------------------------------
(* Redis *)

\* one factor short: an hour
ExpireSecondsHour == 60 * 60

\* 60 * 60 * 24, the seconds EXPIRE is given
ExpireSeconds == 60 * 60 * 24

\* SET key value KEEPTTL: writes the value and keeps the time-to-live of the key
RedisSetKeepTTL(st, key, val) ==
    [k \in DOMAIN st \cup {key} |->
        IF k = key
        THEN [val |-> val, ttl |-> IF key \in DOMAIN st THEN st[key].ttl ELSE 0]
        ELSE st[k]]

\* SET key value: writes the value and discards any time-to-live of the key
RedisSet(st, key, val) ==
    [k \in DOMAIN st \cup {key} |-> IF k = key THEN [val |-> val, ttl |-> 0] ELSE st[k]]

\* EXPIRE key seconds NX: sets the time-to-live only of a key that has none
RedisExpireNX(st, key, secs) ==
    IF key \in DOMAIN st /\ st[key].ttl = 0 THEN [st EXCEPT ![key].ttl = secs] ELSE st

\* EXPIRE key seconds: sets the time-to-live of an existing key
RedisExpire(st, key, secs) ==
    IF key \in DOMAIN st THEN [st EXCEPT ![key].ttl = secs] ELSE st

\* the keys matching '<prefix>*'
Matching(st, prefix) == {k \in DOMAIN st : StartsWith(k, prefix)}

(* The list `remote` is kept as a bag: key -> how many times the list holds
   it.  scan_iter returns the keys in an order the script cannot know, the
   only thing done with the order is to walk the list in the expire loop,
   and list.remove takes one occurrence away: the expire loop picking any
   remaining key gives the same runs as a list in any order. *)

EmptyBag == [k \in {} |-> 0]

\* how many entries the list holds
BagSize(bag) ==
    LET RECURSIVE Sum(_)
        Sum(keys) == IF keys = {} THEN 0
                     ELSE LET k == CHOOSE k \in keys : TRUE
                          IN  bag[k] + Sum(keys \ {k})
    IN  Sum(DOMAIN bag)

\* list.remove(x) under try/except ValueError: drops one x, if there is any
ListRemove(bag, x) ==
    IF x \notin DOMAIN bag THEN bag
    ELSE IF bag[x] = 1 THEN [k \in DOMAIN bag \ {x} |-> bag[k]]
    ELSE [bag EXCEPT ![x] = @ - 1]

\* what scan_iter('<prefix>*') may return: every matching key at least once,
\* a key possibly more than once
ScanIter(st, prefix) ==
    LET keys == Matching(st, prefix)
    IN  {bag \in [keys -> 1..(1 + MaxDup)] : BagSize(bag) <= Cardinality(keys) + MaxDup}

\* [key[n:] for key in listing]
Decode(listing, n) ==
    LET names == {DropFirst(k, n) : k \in DOMAIN listing}
    IN  [name \in names |->
            listing[CHOOSE k \in DOMAIN listing : DropFirst(k, n) = name]]

\* time passing in the store: time-to-lives run down, keys at zero are gone
Elapse(st, secs) ==
    LET live == {k \in DOMAIN st : st[k].ttl = 0 \/ st[k].ttl > secs}
    IN  [k \in live |-> IF st[k].ttl = 0 THEN st[k] ELSE [st[k] EXCEPT !.ttl = @ - secs]]

SetOp(key, val) == [op |-> "set", key |-> key, val |-> val, secs |-> 0]
\* PUBLISH with its arguments in the wrong order
PublishOpSwapped(channel, msg) == [op |-> "publish", key |-> msg, val |-> channel, secs |-> 0]
PublishOp(channel, msg) == [op |-> "publish", key |-> channel, val |-> msg, secs |-> 0]
ExpireOp(key, secs) == [op |-> "expire", key |-> key, val |-> "", secs |-> secs]

----------------------------------------------------------------------------
(* What the model's directory and command line are drawn from *)

\* the file names and the subdirectory names of a directory that changes
FileNames == {"index.html"}
DirNames == {"docs"}
\* the bytes a file of a directory that changes may hold: JSON that is not
\* in canonical form, and text that is not JSON
Contents == {"{ }", "{"}
\* the names and bytes of a directory that is given once and then synced
GivenNames == {"index.html", "xindex.html", "a.css"}
GivenContents == {"{ }", "[]", "{"}
\* the command lines
Argvs ==
    { <<"tool.py">>,
      <<"tool.py", "sync_assets">>, <<"tool.py", "sync_cards">>,
      <<"tool.py", "sync_assets", Directory>>, <<"tool.py", "sync_cards", Directory>>,
      <<"tool.py", "help">> }
\* the clock advances in steps of half the grace period
TickSeconds == ExpireSeconds \div 2

EmptyStore == [k \in {} |-> [val |-> "", ttl |-> 0]]
NoRun == [valid |-> FALSE, store |-> EmptyStore, expired |-> {}]
NoCrash == [valid |-> FALSE, store |-> EmptyStore]
NoAges == [k \in {} |-> 0]

InsertAt(seq, pos, e) == SubSeq(seq, 1, pos - 1) \o <<e>> \o SubSeq(seq, pos, Len(seq))
RemoveAt(seq, pos) == SubSeq(seq, 1, pos - 1) \o SubSeq(seq, pos + 1, Len(seq))

\* whether some file of the directory derives this namespaced key
Backed(key, tr) ==
    \E n \in DOMAIN listdir(tr, "") :
        \/ key = "asset:" \o AssetKey(listdir(tr, "")[n])
        \/ key = "card:" \o CardKey(listdir(tr, "")[n])

Restrict(f, keys) == [k \in DOMAIN f \cap keys |-> f[k]]

----------------------------------------------------------------------------
(* The state after construction: an empty directory, an empty keyspace *)

NoRunYet ==
    /\ pc = "idle"
    /\ mode = ""
    /\ local = <<>>
    /\ remote = EmptyBag
    /\ i = 0
    /\ ops = <<>>
    /\ scan = EmptyBag
    /\ store0 = EmptyStore
    /\ first = NoRun
    /\ crash0 = NoCrash
    /\ since = NoAges
    /\ sinceExp = NoAges

Init ==
    /\ tree = <<>>
    /\ store = EmptyStore
    /\ NoRunYet

\* the lists of at most n files with distinct names
FileLists(n) ==
    UNION {{[k \in 1..len |-> File(f[k][1], f[k][2])] :
                f \in {g \in [1..len -> GivenNames \X GivenContents] :
                          \A a, b \in 1..len : a # b => g[a][1] # g[b][1]}} :
           len \in 0..n}

\* the directories of at most MaxFiles files, with at most one subdirectory
Trees ==
    FileLists(MaxFiles)
    \cup UNION {UNION {{InsertAt(root, pos, Dir(d, kids)) : pos \in 1..(Len(root) + 1)} :
                         d \in DirNames, root \in FileLists(MaxFiles - Len(kids))} :
                  kids \in FileLists(MaxFiles) \ {<<>>}}

\* the keyspace earlier syncs of both modes left behind: a key for every
\* file of the directory, written from what the file held then, and a key
\* for a file that no longer exists
Earlier(tr) ==
    LET paths == Range(listdir(tr, ""))
        keys == {"asset:" \o AssetKey(p) : p \in paths} \cup {"asset:stale"}
                \cup {"card:" \o CardKey(p) : p \in paths} \cup {"card:stale"}
    IN  [k \in keys |->
            [val |-> IF StartsWith(k, "asset:") THEN "text/plain;old" ELSE "{}", ttl |-> 0]]

\* a given directory, and a store that is empty or holds earlier syncs
InitGiven ==
    /\ tree \in Trees
    /\ store \in {EmptyStore, Earlier(tree)}
    /\ NoRunYet

run_vars == <<mode, local, remote, i, ops, scan, store0, first, crash0>>

----------------------------------------------------------------------------
(* The environment between runs: files come and go, time passes *)

\* the directory changed: what was recorded about earlier runs no longer applies
Edited(tr) ==
    /\ tree' = tr
    /\ since' = Restrict(since, {k \in DOMAIN since : ~Backed(k, tr)})
    /\ UNCHANGED <<store, pc, run_vars, sinceExp>>

\* a file appears at the top of the directory
CreateFile ==
    /\ pc = "idle"
    /\ Len(listdir(tree, "")) < MaxFiles
    /\ \E name \in FileNames, data \in Contents, pos \in 1..(Len(tree) + 1) :
        /\ \A n \in DOMAIN tree : tree[n].name # name
        /\ Edited(InsertAt(tree, pos, File(name, data)))

\* a file appears in a subdirectory, which is created when missing
CreateFileIn ==
    /\ pc = "idle"
    /\ Len(listdir(tree, "")) < MaxFiles
    /\ \E d \in DirNames, name \in FileNames, data \in Contents :
        \/ /\ \A n \in DOMAIN tree : tree[n].name # d
           /\ \E pos \in 1..(Len(tree) + 1) :
                Edited(InsertAt(tree, pos, Dir(d, <<File(name, data)>>)))
        \/ \E n \in DOMAIN tree :
            /\ tree[n].isdir /\ tree[n].name = d
            /\ \A m \in DOMAIN tree[n].kids : tree[n].kids[m].name # name
            /\ \E pos \in 1..(Len(tree[n].kids) + 1) :
                Edited([tree EXCEPT ![n].kids = InsertAt(@, pos, File(name, data))])

\* a file is deleted; a subdirectory left empty goes with it
DeleteFile ==
    /\ pc = "idle"
    /\ \E n \in DOMAIN tree :
        \/ /\ ~tree[n].isdir
           /\ Edited(RemoveAt(tree, n))
        \/ /\ tree[n].isdir
           /\ \E m \in DOMAIN tree[n].kids :
                IF Len(tree[n].kids) = 1
                THEN Edited(RemoveAt(tree, n))
                ELSE Edited([tree EXCEPT ![n].kids = RemoveAt(@, m)])

\* time passes between two runs
Tick ==
    /\ pc = "idle"
    /\ \E k \in DOMAIN store : store[k].ttl > 0
    /\ store' = Elapse(store, TickSeconds)
    /\ since' = [k \in DOMAIN since \cap DOMAIN store' |->
                    Min(since[k] + TickSeconds, ExpireSeconds)]
    /\ sinceExp' = [k \in DOMAIN sinceExp \cap DOMAIN store' |-> sinceExp[k] + TickSeconds]
    /\ UNCHANGED <<tree, pc, run_vars>>

----------------------------------------------------------------------------
(* One invocation of the script *)

\* where the script goes once `for item in local` is over
AfterUploads(rem) == IF DOMAIN rem = {} THEN "done" ELSE "expire"

\* the argument and environment checks that end in exit(1)
ExitsEarly(argv, url) ==
    IF Len(argv) = 1 THEN TRUE
    ELSE IF argv[2] = "sync_assets" /\ Len(argv) = 2 THEN TRUE
    ELSE IF argv[2] = "sync_cards" /\ Len(argv) = 2 THEN TRUE
    ELSE ~url

\* key[6:] for assets, key[5:] for cards
PrefixLen(m) == IF m = "sync_assets" THEN 6 ELSE 5

\* the script prints a message and exits with code 1
Usage ==
    /\ pc = "idle"
    /\ \E argv \in Argvs, url \in BOOLEAN :
        /\ ExitsEarly(argv, url)
        /\ pc' = "usage"
    /\ store0' = store
    /\ UNCHANGED <<tree, store, mode, local, remote, i, ops, scan, first, crash0, since, sinceExp>>

\* lines 46-54 and 76-81: the directory is walked, the remote keys are listed
Begin(m) ==
    /\ mode' = m
    /\ local' = LocalItems(m, listdir(tree, ""))
    /\ \E listing \in ScanIter(store, Prefix(m)) :
        /\ scan' = listing
        /\ remote' = Decode(listing, PrefixLen(m))
    /\ pc' = IF local' = <<>> THEN AfterUploads(remote') ELSE "upload"
    /\ i' = 1
    /\ ops' = <<>>
    /\ store0' = store

\* a sync starts
StartSync ==
    /\ pc = "idle"
    /\ \E argv \in Argvs, url \in BOOLEAN :
        /\ ~ExitsEarly(argv, url)
        /\ argv[2] \in {"sync_assets", "sync_cards"}
        /\ Begin(argv[2])
    /\ UNCHANGED <<tree, store, first, crash0, since, sinceExp>>

\* argv[1] names neither sync: the script connects and ends
StartOther ==
    /\ pc = "idle"
    /\ \E argv \in Argvs, url \in BOOLEAN :
        /\ ~ExitsEarly(argv, url)
        /\ argv[2] \notin {"sync_assets", "sync_cards"}
        /\ mode' = argv[2]
    /\ pc' = "done"
    /\ store0' = store
    /\ UNCHANGED <<tree, store, local, remote, i, ops, scan, first, crash0, since, sinceExp>>

\* the first half of the loop body: remote.remove, read the file, SET
Upload ==
    /\ pc = "upload"
    /\ LET item == local[i]
           data == Open(item[2])
           key == Prefix(mode) \o item[1]
       IN  /\ remote' = ListRemove(remote, item[1])
           /\ IF Raises(mode, data)
              THEN /\ pc' = "aborted"
                   /\ UNCHANGED <<store, ops, sinceExp>>
              ELSE /\ store' = RedisSet(store, key, Value(mode, item[2], data))
                   /\ ops' = Append(ops, SetOp(key, Value(mode, item[2], data)))
                   /\ sinceExp' = Restrict(sinceExp, DOMAIN sinceExp \ {key})
                   /\ pc' = "publish"
    /\ UNCHANGED <<tree, mode, local, i, scan, store0, first, crash0, since>>

\* the second half of the loop body: PUBLISH, print
Publish ==
    /\ pc = "publish"
    /\ ops' = Append(ops, PublishOp("invalidations", local[i][1]))
    /\ i' = i + 1
    /\ pc' = IF i = Len(local) THEN AfterUploads(remote) ELSE "upload"
    /\ UNCHANGED <<tree, store, mode, local, remote, scan, store0, first, crash0, since, sinceExp>>

\* the body of `for item in remote`: EXPIRE, print
Expire ==
    /\ pc = "expire"
    /\ \E item \in DOMAIN remote :
        LET key == Prefix(mode) \o item
        IN  /\ store' = RedisExpire(store, key, ExpireSeconds)
            /\ ops' = Append(ops, ExpireOp(key, ExpireSeconds))
            /\ sinceExp' = IF key \in DOMAIN store
                           THEN [k \in DOMAIN sinceExp \cup {key} |->
                                     IF k = key THEN 0 ELSE sinceExp[k]]
                           ELSE sinceExp
            /\ remote' = ListRemove(remote, item)
    /\ pc' = AfterUploads(remote')
    /\ UNCHANGED <<tree, mode, local, i, scan, store0, first, crash0, since>>

\* the keys a run sent EXPIRE for
Expired(log) == {log[n].key : n \in {m \in DOMAIN log : log[m].op = "expire"}}

\* the keys a run sent SET for
Written(log) == {log[n].key : n \in {m \in DOMAIN log : log[m].op = "set"}}

\* `since` once a run has completed: the keys it found unbacked start to age
Noted ==
    [k \in DOMAIN since \cup ((Expired(ops) \ Written(ops)) \cap DOMAIN store) |->
        IF k \in DOMAIN since THEN since[k] ELSE 0]

\* the run's variables once the process is gone
Cleared ==
    /\ pc' = "idle"
    /\ mode' = ""
    /\ local' = <<>>
    /\ remote' = EmptyBag
    /\ i' = 0
    /\ ops' = <<>>
    /\ scan' = EmptyBag
    /\ store0' = EmptyStore
    /\ first' = NoRun
    /\ crash0' = NoCrash

\* the process is killed between two Redis commands; what it wrote stays
Crash ==
    /\ pc \in {"upload", "publish", "expire"}
    /\ Cleared
    /\ UNCHANGED <<tree, store, since, sinceExp>>

\* the process has ended; the next invocation starts from scratch
Return ==
    /\ pc \in {"done", "aborted", "usage"}
    /\ Cleared
    /\ since' = IF pc = "done" THEN Noted ELSE since
    /\ UNCHANGED <<tree, store, sinceExp>>

\* the same sync is run again right after it completed
RunAgain ==
    /\ pc = "done"
    /\ mode \in {"sync_assets", "sync_cards"}
    /\ Begin(mode)
    /\ first' = [valid |-> TRUE, store |-> store, expired |-> Expired(ops)]
    /\ crash0' = NoCrash
    /\ since' = Noted
    /\ UNCHANGED <<tree, store, sinceExp>>

\* the process is killed between two Redis commands and the same sync is
\* run again right away
Restart ==
    /\ pc \in {"upload", "publish", "expire"}
    /\ Begin(mode)
    /\ first' = NoRun
    /\ crash0' = IF crash0.valid THEN crash0 ELSE [valid |-> TRUE, store |-> store0]
    /\ UNCHANGED <<tree, store, since, sinceExp>>

Next ==
    \/ CreateFile
    \/ CreateFileIn
    \/ DeleteFile
    \/ Usage
    \/ StartSync
    \/ StartOther
    \/ Upload
    \/ Publish
    \/ Expire
    \/ Crash
    \/ Return

Spec == Init /\ [][Next]_vars

\* with the clock
NextTimed == Next \/ Tick
SpecTimed == Init /\ [][NextTimed]_vars

\* one invocation on a given directory
NextGiven ==
    \/ Usage
    \/ StartSync
    \/ StartOther
    \/ Upload
    \/ Publish
    \/ Expire
SpecGiven == InitGiven /\ [][NextGiven]_vars

\* with immediate repetitions of a run
NextRepeat == Next \/ RunAgain \/ Restart
SpecRepeat == Init /\ [][NextRepeat]_vars

----------------------------------------------------------------------------
(* What the claims speak of *)

Syncs == {"sync_assets", "sync_cards"}
Running == {"upload", "publish", "expire"}

\* the files of the directory, in the walker's order: <<relative path, bytes>>
Found == Files(tree, "")

\* the namespaced key the current mode gives the n-th file found
KeyOf(n) == Prefix(mode) \o LogicalKey(mode, Found[n][1])

\* the value the current mode derives from the n-th file found
DerivedFrom(n) == Value(mode, Directory \o "/" \o Found[n][1], Found[n][2])

\* the namespaced keys and the values the current mode derives from the
\* files found, in the walker's order
Keys ==
    LET found == Found
    IN  [n \in DOMAIN found |-> Prefix(mode) \o LogicalKey(mode, found[n][1])]
Values ==
    LET found == Found
    IN  [n \in DOMAIN found |-> Value(mode, Directory \o "/" \o found[n][1], found[n][2])]

\* the last position that holds the same key as position n
LastLike(keys, n) ==
    CHOOSE m \in DOMAIN keys :
        /\ keys[m] = keys[n]
        /\ \A l \in DOMAIN keys : keys[l] = keys[n] => l <= m

\* the keys of the current mode's namespace that no file of the directory backs
Unbacked(st) ==
    {k \in Matching(st, Prefix(mode)) : \A n \in DOMAIN Found : KeyOf(n) # k}

\* the messages a run published
Published(log) == {log[n].val : n \in {m \in DOMAIN log : log[m].op = "publish"}}

\* how many commands of a kind a run issued
Count(log, kind) == Cardinality({n \in DOMAIN log : log[n].op = kind})

\* the keys that carry an expiration
Expiring(st) == {k \in DOMAIN st : st[k].ttl > 0}

\* the keyspace after the uploads of the first n files found
RECURSIVE Uploaded(_, _)
Uploaded(st, n) ==
    IF n = 0 THEN st ELSE RedisSet(Uploaded(st, n - 1), KeyOf(n), DerivedFrom(n))

\* the commands of the uploads of the first n files found
RECURSIVE UploadOps(_)
UploadOps(n) ==
    IF n = 0 THEN <<>>
    ELSE UploadOps(n - 1)
         \o << SetOp(KeyOf(n), DerivedFrom(n)),
               PublishOp("invalidations", LogicalKey(mode, Found[n][1])) >>

----------------------------------------------------------------------------
(* C1: convergence *)

\* C1, as claimed: after a sync run that completes, every file found under
\* the directory has a remote key '<prefix><logical key>' whose value is the
\* content derived from that same file, also when several files derive the
\* same logical key.
C1_Convergence ==
    (pc = "done" /\ mode \in Syncs) =>
        \A n \in DOMAIN Found :
            /\ KeyOf(n) \in DOMAIN store
            /\ store[KeyOf(n)].val = DerivedFrom(n)

\* C1, as amended: after a sync run that completes, every file found has a
\* remote key '<prefix><logical key>', and its value is the content derived
\* from the last file, in the walker's order, that derives that logical key
\* (the file itself when no later file derives the same key).
C1_LastFileWins ==
    (pc = "done" /\ mode \in Syncs) =>
        LET keys == Keys
            vals == Values
        IN  \A n \in DOMAIN keys :
                /\ keys[n] \in DOMAIN store
                /\ store[keys[n]].val = vals[LastLike(keys, n)]

\* a completed run over two files that derive the same key and different values
C1_Witness ==
    /\ pc = "done"
    /\ mode \in Syncs
    /\ \E n, m \in DOMAIN Found :
        n < m /\ KeyOf(n) = KeyOf(m) /\ DerivedFrom(n) # DerivedFrom(m)

----------------------------------------------------------------------------
(* C2: removal handling *)

\* C2: in a completed run, every remote key under the mode's prefix that no
\* local item backs is sent EXPIRE with 86400 seconds and carries that
\* time-to-live, is still in the store, and keeps its value; the keys the
\* run writes are keys of local items, and no key is deleted.
C2_Removal ==
    (pc = "done" /\ mode \in Syncs) =>
        /\ \A k \in Unbacked(store0) :
            /\ \E n \in DOMAIN ops : ops[n] = ExpireOp(k, 86400)
            /\ k \in DOMAIN store
            /\ store[k].ttl = 86400
            /\ store[k].val = store0[k].val
            /\ k \notin Written(ops)
        /\ Written(ops) = {KeyOf(n) : n \in DOMAIN Found}
        /\ DOMAIN store0 \subseteq DOMAIN store

\* a completed run that found an unbacked key and uploaded a file
C2_Witness ==
    /\ pc = "done"
    /\ mode \in Syncs
    /\ Unbacked(store0) # {}
    /\ Written(ops) # {}

----------------------------------------------------------------------------
(* C3: idempotence *)

\* C3: when the same sync is run a second time right after it completed,
\* against the unchanged directory, the store holds the same keys with the
\* same values after the second run as after the first, and the second run
\* sends EXPIRE for no key the first run did not send it for.
C3_Idempotent ==
    (pc = "done" /\ first.valid) =>
        /\ DOMAIN store = DOMAIN first.store
        /\ \A k \in DOMAIN store : store[k].val = first.store[k].val
        /\ Expired(ops) \subseteq first.expired

\* the same, for the second runs whose listing held every key once
C3_IdempotentUnlessRepeated ==
    (pc = "done" /\ first.valid /\ \A k \in DOMAIN scan : scan[k] = 1) =>
        /\ DOMAIN store = DOMAIN first.store
        /\ \A k \in DOMAIN store : store[k].val = first.store[k].val
        /\ Expired(ops) \subseteq first.expired

----------------------------------------------------------------------------
(* C4: crash convergence *)

\* the keyspace one uninterrupted run leaves, from keyspace st, when the
\* listing holds every key once
Uninterrupted(st) ==
    LET up == Uploaded(st, Len(Found))
    IN  [k \in DOMAIN up |->
            IF k \in Unbacked(st) THEN [up[k] EXCEPT !.ttl = ExpireSeconds] ELSE up[k]]

\* the keys an uninterrupted run from keyspace st may send EXPIRE for beyond
\* the unbacked ones, when the listing repeats keys
MayExpire(st) == Matching(st, Prefix(mode)) \ Unbacked(st)

\* C4: when a run was interrupted between two store operations and the same
\* sync then ran to completion against the unchanged directory, the values
\* in the store and the set of keys that carry an expiration are those of
\* one uninterrupted run from the original store.
C4_CrashConvergence ==
    (pc = "done" /\ crash0.valid) =>
        LET want == Uninterrupted(crash0.store)
        IN  /\ DOMAIN store = DOMAIN want
            /\ \A k \in DOMAIN store : store[k].val = want[k].val
            /\ Expiring(want) \subseteq Expiring(store)
            /\ Expiring(store) \subseteq Expiring(want) \cup MayExpire(crash0.store)

\* the same, for the completing runs whose listing held every key once
C4_ConvergesUnlessRepeated ==
    (pc = "done" /\ crash0.valid /\ \A k \in DOMAIN scan : scan[k] = 1) =>
        LET want == Uninterrupted(crash0.store)
        IN  /\ DOMAIN store = DOMAIN want
            /\ \A k \in DOMAIN store : store[k].val = want[k].val
            /\ Expiring(store) = Expiring(want)

----------------------------------------------------------------------------
(* C5: abort on the first error *)

\* C5, as claimed: a run that ends on a missing argument or a missing
\* connection URL has issued no store command; a run that ends on a
\* malformed JSON file has neither written nor published the failing file's
\* key, has processed no later item, has expired nothing, and the writes
\* for the earlier items are in the store.
C5_AbortOnFirstError ==
    /\ pc = "usage" => (ops = <<>> /\ store = store0)
    /\ pc = "aborted" =>
        /\ KeyOf(i) \notin Written(ops)
        /\ LogicalKey(mode, Found[i][1]) \notin Published(ops)
        /\ Count(ops, "set") = i - 1
        /\ Count(ops, "publish") = i - 1
        /\ Expired(ops) = {}
        /\ store = Uploaded(store0, i - 1)

\* C5, as amended: the same, except that the failing file's key is not
\* written or published for the failing file: the commands issued are
\* exactly the SET and PUBLISH of each earlier item, in order, one of which
\* has the failing file's key when an earlier file derives the same key.
C5_AbortKeepsEarlierWrites ==
    /\ pc = "usage" => (ops = <<>> /\ store = store0)
    /\ pc = "aborted" =>
        /\ mode = "sync_cards"
        /\ JsonLoad(Found[i][2]) = "JSONDecodeError"
        /\ ops = UploadOps(i - 1)
        /\ store = Uploaded(store0, i - 1)

\* a card sync aborted on a malformed file whose key an earlier file had
C5_Witness ==
    /\ pc = "aborted"
    /\ i > 1
    /\ KeyOf(i) \in Written(ops)

----------------------------------------------------------------------------
(* C6: invalidation *)

\* C6: at every point of a run, one message has been published per item
\* processed, on 'invalidations', carrying the item's logical key without
\* the namespace prefix, right after the SET of that item's key; a completed
\* run has published one message per local file, and none for a key it
\* only expired.
C6_Invalidation ==
    (pc \in Running \cup {"done", "aborted"} /\ mode \in Syncs) =>
        LET found == Found
        IN  /\ \A n \in DOMAIN ops :
                ops[n].op = "publish" =>
                    /\ ops[n].key = "invalidations"
                    /\ n > 1
                    /\ ops[n - 1].op = "set"
                    /\ ops[n - 1].key = Prefix(mode) \o ops[n].val
                    /\ ops[n].val = LogicalKey(mode, found[n \div 2][1])
            /\ Count(ops, "publish") = (IF pc \in {"upload", "aborted", "publish"} THEN i - 1
                                        ELSE Len(found))
            /\ Count(ops, "set") = (IF pc \in {"upload", "aborted"} THEN i - 1
                                    ELSE IF pc = "publish" THEN i
                                    ELSE Len(found))
            /\ \A k \in Expired(ops) \ Written(ops) :
                    DropFirst(k, PrefixLen(mode)) \notin Published(ops)

\* a completed run that uploaded two files and expired a key
C6_Witness ==
    /\ pc = "done"
    /\ Count(ops, "publish") = 2
    /\ Expired(ops) \ Written(ops) # {}

----------------------------------------------------------------------------
(* C7: asset key derivation *)

\* the file name of a relative path, and the path of its parent directory
NameOf(path) == SplitLast(path, "/")
ParentOf(path) == DropLast(path, Len(NameOf(path)) + 1)

\* C7: in asset mode, a walked path whose file name ends in 'index.html'
\* has the path of its parent directory as logical key, and every other
\* path is its own logical key.
C7_AssetKeys ==
    (pc \in Running \cup {"done"} /\ mode = "sync_assets") =>
        \A n \in DOMAIN local :
            LET path == listdir(tree, "")[n]
            IN  local[n][1] = IF EndsWith(NameOf(path), "index.html")
                              THEN ParentOf(path)
                              ELSE path

\* the same, for the paths whose file name is 'index.html' itself or does not
\* end in 'index.html'
C7_AssetKeysOfIndexFiles ==
    (pc \in Running \cup {"done"} /\ mode = "sync_assets") =>
        \A n \in DOMAIN local :
            LET path == listdir(tree, "")[n]
            IN  (NameOf(path) = "index.html" \/ ~EndsWith(NameOf(path), "index.html")) =>
                    local[n][1] = IF NameOf(path) = "index.html" THEN ParentOf(path) ELSE path

----------------------------------------------------------------------------
(* C8: the grace period *)

\* C8, as claimed: a key that a completed run found unbacked, and whose file
\* stays absent, is gone from the store 24 hours after that run at the
\* latest, whatever runs take place in between.
C8_FixedGracePeriod ==
    \A k \in DOMAIN since : since[k] < ExpireSeconds

\* C8, as amended: every EXPIRE a run sends for a key restarts its 24 hours:
\* a key that carries an expiration is gone 24 hours after the last run
\* that expired it, and a key a completed run found unbacked carries an
\* expiration for as long as its file stays absent.
C8_GracePeriodRestarts ==
    /\ \A k \in Expiring(store) :
        /\ k \in DOMAIN sinceExp
        /\ store[k].ttl + sinceExp[k] = 86400
    /\ \A k \in DOMAIN since : k \in Expiring(store)

\* a key found unbacked half a day ago or earlier that a run has just expired again
C8_Witness ==
    \E k \in DOMAIN since :
        /\ since[k] >= TickSeconds
        /\ k \in DOMAIN sinceExp
        /\ sinceExp[k] = 0

----------------------------------------------------------------------------
(* C9: re-upload and the time-to-live *)

\* C9, as claimed: when a run has just uploaded a key that carried an
\* expiration when the run started, the key still has that time-to-live.
C9_UploadKeepsTTL ==
    (pc = "publish" /\ KeyOf(i) \in Expiring(store0)) =>
        store[KeyOf(i)].ttl = store0[KeyOf(i)].ttl

\* C9, as amended: when a run has just uploaded a key, the key holds the
\* value derived from the file and carries no expiration, whatever
\* expiration it carried before: the SET discards it.
C9_UploadClearsTTL ==
    pc = "publish" =>
        /\ KeyOf(i) \in DOMAIN store
        /\ store[KeyOf(i)].val = DerivedFrom(i)
        /\ store[KeyOf(i)].ttl = 0

\* a run has just uploaded a key that carried an expiration when it started
C9_Witness ==
    /\ pc = "publish"
    /\ KeyOf(i) \in Expiring(store0)

----------------------------------------------------------------------------
(* C10: uploaded and expired keys *)

\* C10: no key a run has written for a local item is sent EXPIRE by the
\* same run, whatever the listing of the remote keys was.
C10_WrittenNotExpired ==
    Written(ops) \cap Expired(ops) = {}

\* the same, for the runs whose listing held every key once
C10_WrittenNotExpiredUnlessRepeated ==
    (\A k \in DOMAIN scan : scan[k] = 1) => Written(ops) \cap Expired(ops) = {}

====
